---- MODULE Spec2Model ----
(***************************************************************************)
(* Model of the amqp-queue resource of psyduck-std/amqp (src/export.go):   *)
(* the producer and consumer factories, the stream functions they return,  *)
(* connect and disconnect.  The broker, the amqp091 client and the host    *)
(* pipeline are the environment: every call into them that returns an      *)
(* error may fail, every channel operation is a blocking step.             *)
(*                                                                         *)
(* Environment assumptions: a failed Consume yields the nil channel (a     *)
(* receive from it blocks forever); a started delivery stream stays open   *)
(* and carries deliveries 1, 2, ... with pairwise distinct bodies; the     *)
(* host's channels are rendezvous points, so a send is one step taken      *)
(* together with the host's receive.  no-wait is passed through to the     *)
(* broker and has no effect on the worker's control flow; it is left out.  *)
(***************************************************************************)
EXTENDS Integers, Sequences, FiniteSets, TLC

(* ---- bounds of the model ---- *)
MaxChunk == 2      \* chunk-size ranges over 0..MaxChunk (uint, no validation)
MaxStop  == 3      \* stop-after ranges over -1..MaxStop (int)
MaxMsgs  == 5      \* deliveries the broker puts on the delivery stream
MaxItems == 2      \* items the host feeds a consumer stream
RecvCap  == 1      \* items the host may have in flight on the input channel

VARIABLES
  kind,       \* "none" | "producer" | "consumer": which factory was called
  pc,         \* position of the factory / worker
  config,     \* the queueConfig the parser filled in
  conn,       \* *amqp091.Connection: "none" | "open" | "closed"
  channel,    \* *amqp091.Channel:    "none" | "open" | "closed"
  queue,      \* TRUE once the queue has been declared
  calls,      \* broker calls and channel closes performed so far, in order
  messages,   \* the delivery stream: "unset" | "open" | "nil"
  delivered,  \* deliveries the broker has put on the stream so far
  received,   \* deliveries the worker has taken from the stream
  msgBuf,     \* the chunk buffer
  i,          \* index of the collection loop
  j,          \* index of the forwarding loop (1-based)
  iters,      \* the iteration counter
  acks,       \* Ack calls made: <<[tag, multiple, ok]>>
  sent,       \* bodies the host received on the output channel
  errsOut,    \* errors the host received on the error channel
  recvQ,      \* items in flight on the consumer's input channel
  recvClosed, \* TRUE once the host closed the input channel
  inLog,      \* items the consumer took from the input channel
  cur,        \* the loop variable d of the consumer
  pubLog,     \* publish calls made: <<[body, contentType, ok]>>
  defers,     \* the worker's stack of deferred calls, last registered last
  panics      \* runtime panics raised, in order

vars == <<kind, pc, config, conn, channel, queue, calls, messages, delivered,
          received, msgBuf, i, j, iters, acks, sent, errsOut, recvQ,
          recvClosed, inLog, cur, pubLog, defers, panics>>

brokerVars   == <<conn, channel, queue>>
producerVars == <<messages, delivered, received, msgBuf, i, j, iters, acks, sent>>
consumerVars == <<recvQ, recvClosed, inLog, cur, pubLog>>

(* ---- data ---- *)
ContentTypes == {"text/plain"}
Bodies       == {"a", "b"}

Configs == [StopAfter : -1..MaxStop, ChunkSize : 0..MaxChunk,
            AutoAck : BOOLEAN, ContentType : ContentTypes]

\* new(queueConfig): the zero value
queueConfig == [StopAfter |-> 0, ChunkSize |-> 0, AutoAck |-> FALSE, ContentType |-> ""]

\* the zero amqp091.Delivery and the t-th delivery of the stream
ZeroDelivery == [DeliveryTag |-> 0, Body |-> 0]
Delivery(t)  == [DeliveryTag |-> t, Body |-> t]

ConnectSteps == <<"Dial", "Channel", "QueueDeclare">>

\* variant: connect goes on to the later steps after a failure
connect_keepsGoing(failAt) ==
  [calls   |-> ConnectSteps,
   conn    |-> IF failAt = 1 THEN "none" ELSE "open",
   channel |-> IF failAt \in {1, 2} THEN "none" ELSE "open",
   queue   |-> failAt = 0,
   err     |-> failAt # 0]

\* variant: connect closes the connection it opened when a later step fails
connect_cleansUp(failAt) ==
  [calls   |-> IF failAt = 0 THEN ConnectSteps ELSE SubSeq(ConnectSteps, 1, failAt),
   conn    |-> IF failAt = 1 THEN "none" ELSE IF failAt = 0 THEN "open" ELSE "closed",
   channel |-> IF failAt \in {1, 2} THEN "none" ELSE IF failAt = 0 THEN "open" ELSE "closed",
   queue   |-> failAt = 0,
   err     |-> failAt # 0]

\* connect: failAt is the step that fails, 0 when none does
connect(failAt) ==
  [calls   |-> IF failAt = 0 THEN ConnectSteps ELSE SubSeq(ConnectSteps, 1, failAt),
   conn    |-> IF failAt = 1 THEN "none" ELSE "open",
   channel |-> IF failAt \in {1, 2} THEN "none" ELSE "open",
   queue   |-> failAt = 0,
   err     |-> failAt # 0]

Init ==
  /\ kind = "none" /\ pc = "idle" /\ config = queueConfig
  /\ conn = "none" /\ channel = "none" /\ queue = FALSE /\ calls = <<>>
  /\ messages = "unset" /\ delivered = 0 /\ received = 0
  /\ msgBuf = <<>> /\ i = 0 /\ j = 0 /\ iters = 0
  /\ acks = <<>> /\ sent = <<>> /\ errsOut = <<>>
  /\ recvQ = <<>> /\ recvClosed = FALSE /\ inLog = <<>> /\ cur = ""
  /\ pubLog = <<>> /\ defers = <<>> /\ panics = <<>>

(* ---- the factories ---- *)
\* parse(config), then connect(config): what the factory leaves behind and
\* where it ends, "factoryError" when it returns (nil, err)
Provide(parseOk, cfg, failAt, start) ==
  IF ~parseOk
    THEN [pc |-> "factoryError", config |-> config, conn |-> conn,
          channel |-> channel, queue |-> queue, calls |-> calls]
    ELSE LET r == connect(failAt) IN
         [pc |-> IF r.err THEN "factoryError" ELSE start, config |-> cfg,
          conn |-> r.conn, channel |-> r.channel, queue |-> r.queue,
          calls |-> r.calls]

ProvideProducer ==
  /\ pc = "idle"
  /\ kind' = "producer"
  /\ \E parseOk \in BOOLEAN, cfg \in Configs, failAt \in 0..3 :
       LET f == Provide(parseOk, cfg, failAt, "consume") IN
       /\ pc' = f.pc /\ config' = f.config /\ calls' = f.calls
       /\ conn' = f.conn /\ channel' = f.channel /\ queue' = f.queue
  /\ UNCHANGED <<producerVars, consumerVars, errsOut, defers, panics>>

ProvideConsumer ==
  /\ pc = "idle"
  /\ kind' = "consumer"
  /\ \E parseOk \in BOOLEAN, cfg \in Configs, failAt \in 0..3 :
       LET f == Provide(parseOk, cfg, failAt, "registerConsumer") IN
       /\ pc' = f.pc /\ config' = f.config /\ calls' = f.calls
       /\ conn' = f.conn /\ channel' = f.channel /\ queue' = f.queue
  /\ UNCHANGED <<producerVars, consumerVars, errsOut, defers, panics>>

(* ---- helpers: channels, defers, panics ---- *)
Count(e) == Cardinality({n \in 1..Len(calls) : calls[n] = e})
IsClosed(ch) == Count(ch) > 0          \* ch is "close(errs)", "close(send)", ...

\* where control goes when the function returns (or unwinds a panic) with the
\* stack of deferred calls ds and the panics pn: the last deferred call
\* registered runs first; with none left the worker is over
Return(ds, pn) ==
  IF ds # <<>> THEN ds[Len(ds)]
  ELSE IF pn # <<>> THEN "crashed" ELSE "done"

Pop(ds) == IF ds = <<>> THEN ds ELSE SubSeq(ds, 1, Len(ds) - 1)

\* errs <- err at position pc = at: the host receives e and the worker goes on
\* to next (popping the defer stack when that ends a deferred call); a send on
\* a closed channel panics instead and unwinds
SendErr(at, e, next, pops) ==
  /\ pc = at
  /\ IF IsClosed("close(errs)")
       THEN /\ panics' = Append(panics, "send on closed channel")
            /\ pc' = Return(defers, panics')
            /\ defers' = Pop(defers)
            /\ UNCHANGED errsOut
       ELSE /\ errsOut' = Append(errsOut, e)
            /\ pc' = IF pops THEN Return(defers, panics) ELSE next
            /\ defers' = IF pops THEN Pop(defers) ELSE defers
            /\ UNCHANGED panics

(* ---- the producer stream ---- *)
\* channel.Consume(...): on failure the delivery stream is the nil channel and
\* the error is sent on errs; there is no return
Consume ==
  /\ pc = "consume"
  /\ calls' = Append(calls, "Consume")
  /\ \E ok \in BOOLEAN :
       /\ messages' = IF ok THEN "open" ELSE "nil"
       /\ pc' = IF ok THEN "register" ELSE "reportConsume"
  /\ UNCHANGED <<kind, config, brokerVars, delivered, received, msgBuf, i, j,
                 iters, acks, sent, errsOut, consumerVars, defers, panics>>

ReportConsume ==
  /\ SendErr("reportConsume", "Consume", "register", FALSE)
  /\ UNCHANGED <<kind, config, brokerVars, calls, producerVars, consumerVars>>

\* variant: the error channel is closed before disconnect runs
RegisterProducer_errsFirst ==
  /\ pc = "register"
  /\ iters' = 0
  /\ defers' = <<"close(send)", "disconnect", "close(errs)">>
  /\ pc' = "head"
  /\ UNCHANGED <<kind, config, brokerVars, calls, messages, delivered, received,
                 msgBuf, i, j, acks, sent, errsOut, consumerVars, panics>>

\* variant: the deferred calls are registered in the reverse order
RegisterProducer_reversed ==
  /\ pc = "register"
  /\ iters' = 0
  /\ defers' = <<"disconnect", "close(errs)", "close(send)">>
  /\ pc' = "head"
  /\ UNCHANGED <<kind, config, brokerVars, calls, messages, delivered, received,
                 msgBuf, i, j, acks, sent, errsOut, consumerVars, panics>>

\* iters := 0 and the three defer statements
RegisterProducer ==
  /\ pc = "register"
  /\ iters' = 0
  /\ defers' = <<"close(send)", "close(errs)", "disconnect">>
  /\ pc' = "head"
  /\ UNCHANGED <<kind, config, brokerVars, calls, messages, delivered, received,
                 msgBuf, i, j, acks, sent, errsOut, consumerVars, panics>>

\* the broker puts one more delivery on the delivery stream
Deliver ==
  /\ messages = "open" /\ conn = "open" /\ channel = "open"
  /\ delivered < MaxMsgs
  /\ delivered' = delivered + 1
  /\ UNCHANGED <<kind, pc, config, brokerVars, calls, messages, received, msgBuf,
                 i, j, iters, acks, sent, errsOut, consumerVars, defers, panics>>

\* msgBuf := make([]amqp091.Delivery, config.ChunkSize); i := 0
LoopHead ==
  /\ pc = "head"
  /\ msgBuf' = [n \in 1..config.ChunkSize |-> ZeroDelivery]
  /\ i' = 0
  /\ pc' = "collect"
  /\ UNCHANGED <<kind, config, brokerVars, calls, messages, delivered, received,
                 j, iters, acks, sent, errsOut, consumerVars, defers, panics>>

\* variant: every delivery is stored in the first slot of the buffer
Receive_firstSlot ==
  /\ pc = "collect"
  /\ i < config.ChunkSize
  /\ messages = "open" /\ received < delivered
  /\ msgBuf' = [msgBuf EXCEPT ![1] = Delivery(received + 1)]
  /\ received' = received + 1
  /\ i' = i + 1
  /\ UNCHANGED <<kind, pc, config, brokerVars, calls, messages, delivered, j,
                 iters, acks, sent, errsOut, consumerVars, defers, panics>>

\* msgBuf[i] = <-messages; i++   (blocks on the nil channel and on an empty one)
Receive ==
  /\ pc = "collect"
  /\ i < config.ChunkSize
  /\ messages = "open" /\ received < delivered
  /\ msgBuf' = [msgBuf EXCEPT ![i + 1] = Delivery(received + 1)]
  /\ received' = received + 1
  /\ i' = i + 1
  /\ UNCHANGED <<kind, pc, config, brokerVars, calls, messages, delivered, j,
                 iters, acks, sent, errsOut, consumerVars, defers, panics>>

\* variant: a partly collected chunk is flushed
CollectDone_partial ==
  /\ pc = "collect"
  /\ (i >= 1 \/ ~(i < config.ChunkSize))
  /\ pc' = IF ~config.AutoAck THEN "ack" ELSE "range"
  /\ j' = 1
  /\ UNCHANGED <<kind, config, brokerVars, calls, messages, delivered, received,
                 msgBuf, i, iters, acks, sent, errsOut, consumerVars, defers, panics>>

\* the collection loop ends; if !config.AutoAck
CollectDone ==
  /\ pc = "collect"
  /\ ~(i < config.ChunkSize)
  /\ pc' = IF ~config.AutoAck THEN "ack" ELSE "range"
  /\ j' = 1
  /\ UNCHANGED <<kind, config, brokerVars, calls, messages, delivered, received,
                 msgBuf, i, iters, acks, sent, errsOut, consumerVars, defers, panics>>

\* variant: the acknowledgment is issued on the first delivery of the chunk
AckTarget_first(buf) == buf[1]

\* the delivery the acknowledgment is issued on
AckTarget(buf) == buf[Len(buf)]

\* variant: the result of Ack is ignored
Ack_ignoreError ==
  /\ pc = "ack"
  /\ \E ok \in BOOLEAN :
       IF Len(msgBuf) = 0
         THEN /\ panics' = Append(panics, "index out of range")
              /\ pc' = Return(defers, panics')
              /\ defers' = Pop(defers)
              /\ UNCHANGED acks
         ELSE /\ acks' = Append(acks, [tag |-> AckTarget(msgBuf).DeliveryTag,
                                       multiple |-> TRUE, ok |-> ok])
              /\ pc' = "range"
              /\ UNCHANGED <<defers, panics>>
  /\ UNCHANGED <<kind, config, brokerVars, calls, messages, delivered, received,
                 msgBuf, i, j, iters, sent, errsOut, consumerVars>>

\* msgBuf[len(msgBuf)-1].Ack(true): indexing an empty buffer panics
Ack ==
  /\ pc = "ack"
  /\ \E ok \in BOOLEAN :
       IF Len(msgBuf) = 0
         THEN /\ panics' = Append(panics, "index out of range")
              /\ pc' = Return(defers, panics')
              /\ defers' = Pop(defers)
              /\ UNCHANGED acks
         ELSE /\ acks' = Append(acks, [tag |-> AckTarget(msgBuf).DeliveryTag,
                                       multiple |-> TRUE, ok |-> ok])
              /\ pc' = IF ok THEN "range" ELSE "reportAck"
              /\ UNCHANGED <<defers, panics>>
  /\ UNCHANGED <<kind, config, brokerVars, calls, messages, delivered, received,
                 msgBuf, i, j, iters, sent, errsOut, consumerVars>>

\* variant: the acknowledgment error is reported and the loop goes on
ReportAck_noReturn ==
  /\ SendErr("reportAck", "Ack", "range", FALSE)
  /\ UNCHANGED <<kind, config, brokerVars, calls, producerVars, consumerVars>>

\* errs <- err; return
ReportAck ==
  /\ SendErr("reportAck", "Ack", "", TRUE)
  /\ UNCHANGED <<kind, config, brokerVars, calls, producerVars, consumerVars>>

\* variant: the stop-after test is left out
StopNow_off(n) == FALSE

\* variant: stop-after = 0 is not treated as unlimited
StopNow_ignoresZero(n) == n >= config.StopAfter

\* variant: the stop-after test fires one forward early
StopNow_early(n) == config.StopAfter # 0 /\ n + 1 >= config.StopAfter

\* variant: the stop-after test is strict
StopNow_strict(n) == config.StopAfter # 0 /\ n > config.StopAfter

\* if config.StopAfter != 0 && iters >= config.StopAfter
StopNow(n) == config.StopAfter # 0 /\ n >= config.StopAfter

\* send <- msg.Body; iters++; the stop-after test
Forward ==
  /\ pc = "range"
  /\ j <= Len(msgBuf)
  /\ IF IsClosed("close(send)")
       THEN /\ panics' = Append(panics, "send on closed channel")
            /\ pc' = Return(defers, panics')
            /\ defers' = Pop(defers)
            /\ UNCHANGED <<sent, iters, j>>
       ELSE /\ sent' = Append(sent, msgBuf[j].Body)
            /\ iters' = iters + 1
            /\ IF StopNow(iters')
                 THEN /\ pc' = Return(defers, panics)
                      /\ defers' = Pop(defers)
                      /\ UNCHANGED j
                 ELSE /\ j' = j + 1
                      /\ UNCHANGED <<pc, defers>>
            /\ UNCHANGED panics
  /\ UNCHANGED <<kind, config, brokerVars, calls, messages, delivered, received,
                 msgBuf, i, acks, errsOut, consumerVars>>

\* the forwarding loop ends: back to the head of the outer loop
RangeDone ==
  /\ pc = "range"
  /\ j > Len(msgBuf)
  /\ pc' = "head"
  /\ UNCHANGED <<kind, config, brokerVars, calls, producerVars, errsOut,
                 consumerVars, defers, panics>>

(* ---- disconnect and the deferred closes ---- *)
\* conn.Close()
ConnClose ==
  /\ pc = "disconnect"
  /\ calls' = Append(calls, "conn.Close")
  /\ \E err \in BOOLEAN :
       /\ conn' = IF err THEN conn ELSE "closed"
       /\ pc' = IF err THEN "reportConnClose" ELSE "channelClose"
  /\ UNCHANGED <<kind, config, channel, queue, producerVars, errsOut,
                 consumerVars, defers, panics>>

\* variant: disconnect returns once the connection-close error is reported
ReportConnClose_return ==
  /\ SendErr("reportConnClose", "conn.Close", "", TRUE)
  /\ UNCHANGED <<kind, config, brokerVars, calls, producerVars, consumerVars>>

ReportConnClose ==
  /\ SendErr("reportConnClose", "conn.Close", "channelClose", FALSE)
  /\ UNCHANGED <<kind, config, brokerVars, calls, producerVars, consumerVars>>

\* channel.Close(); disconnect returns
ChannelClose ==
  /\ pc = "channelClose"
  /\ calls' = Append(calls, "channel.Close")
  /\ \E err \in BOOLEAN :
       /\ channel' = IF err THEN channel ELSE "closed"
       /\ pc' = IF err THEN "reportChannelClose" ELSE Return(defers, panics)
       /\ defers' = IF err THEN defers ELSE Pop(defers)
  /\ UNCHANGED <<kind, config, conn, queue, producerVars, errsOut,
                 consumerVars, panics>>

ReportChannelClose ==
  /\ SendErr("reportChannelClose", "channel.Close", "", TRUE)
  /\ UNCHANGED <<kind, config, brokerVars, calls, producerVars, consumerVars>>

\* close(ch) run as a deferred call; closing a closed channel panics
Close(ch) ==
  /\ calls' = Append(calls, ch)
  /\ panics' = IF IsClosed(ch) THEN Append(panics, "close of closed channel")
                               ELSE panics
  /\ pc' = Return(defers, panics')
  /\ defers' = Pop(defers)
  /\ UNCHANGED <<kind, config, brokerVars, producerVars, errsOut, consumerVars>>

\* defer close(errs)
CloseErrs ==
  /\ pc = "close(errs)"
  /\ Close("close(errs)")

\* defer close(send)
CloseSend ==
  /\ pc = "close(send)"
  /\ Close("close(send)")

\* defer close(done)
CloseDone ==
  /\ pc = "close(done)"
  /\ Close("close(done)")

(* ---- the consumer stream ---- *)
\* variant: the consumer's deferred calls are registered in the reverse order
RegisterConsumer_reversed ==
  /\ pc = "registerConsumer"
  /\ defers' = <<"disconnect", "close(errs)", "close(done)">>
  /\ pc' = "recv"
  /\ UNCHANGED <<kind, config, brokerVars, calls, producerVars, errsOut,
                 consumerVars, panics>>

\* the three defer statements of the consumer
RegisterConsumer ==
  /\ pc = "registerConsumer"
  /\ defers' = <<"close(done)", "close(errs)", "disconnect">>
  /\ pc' = "recv"
  /\ UNCHANGED <<kind, config, brokerVars, calls, producerVars, errsOut,
                 consumerVars, panics>>

\* the host puts an item on the input channel
HostSend ==
  /\ kind = "consumer" /\ pc \notin {"idle", "factoryError"}
  /\ ~recvClosed
  /\ Len(recvQ) < RecvCap
  /\ Len(inLog) + Len(recvQ) < MaxItems
  /\ \E d \in Bodies : recvQ' = Append(recvQ, d)
  /\ UNCHANGED <<kind, pc, config, brokerVars, calls, producerVars, errsOut,
                 recvClosed, inLog, cur, pubLog, defers, panics>>

\* the host closes the input channel
HostClose ==
  /\ kind = "consumer" /\ pc \notin {"idle", "factoryError"}
  /\ ~recvClosed
  /\ recvClosed' = TRUE
  /\ UNCHANGED <<kind, pc, config, brokerVars, calls, producerVars, errsOut,
                 recvQ, inLog, cur, pubLog, defers, panics>>

\* for d := range recv: the next item
RangeRecv ==
  /\ pc = "recv"
  /\ recvQ # <<>>
  /\ cur' = recvQ[1]
  /\ recvQ' = SubSeq(recvQ, 2, Len(recvQ))
  /\ inLog' = Append(inLog, recvQ[1])
  /\ pc' = "publish"
  /\ UNCHANGED <<kind, config, brokerVars, calls, producerVars, errsOut,
                 recvClosed, pubLog, defers, panics>>

\* variant: the loop ends as soon as no item is waiting
RangeEnd_onEmpty ==
  /\ pc = "recv"
  /\ recvQ = <<>>
  /\ pc' = Return(defers, panics)
  /\ defers' = Pop(defers)
  /\ UNCHANGED <<kind, config, brokerVars, calls, producerVars, errsOut,
                 consumerVars, panics>>

\* for d := range recv: the channel is closed and drained, the function returns
RangeEnd ==
  /\ pc = "recv"
  /\ recvQ = <<>> /\ recvClosed
  /\ pc' = Return(defers, panics)
  /\ defers' = Pop(defers)
  /\ UNCHANGED <<kind, config, brokerVars, calls, producerVars, errsOut,
                 consumerVars, panics>>

\* channel.PublishWithContext(...)
Publish ==
  /\ pc = "publish"
  /\ \E ok \in BOOLEAN :
       /\ pubLog' = Append(pubLog, [body |-> cur, contentType |-> config.ContentType,
                                    ok |-> ok])
       /\ pc' = IF ok THEN "recv" ELSE "reportPublish"
  /\ UNCHANGED <<kind, config, brokerVars, calls, producerVars, errsOut,
                 recvQ, recvClosed, inLog, cur, defers, panics>>

\* variant: a publish error ends the stream
ReportPublish_fatal ==
  /\ SendErr("reportPublish", "Publish", "", TRUE)
  /\ UNCHANGED <<kind, config, brokerVars, calls, producerVars, consumerVars>>

\* errs <- err; the loop goes on
ReportPublish ==
  /\ SendErr("reportPublish", "Publish", "recv", FALSE)
  /\ UNCHANGED <<kind, config, brokerVars, calls, producerVars, consumerVars>>

(* ---- specifications ---- *)
Factory == ProvideProducer \/ ProvideConsumer

Producer ==
  \/ Consume \/ ReportConsume \/ RegisterProducer \/ LoopHead \/ Receive
  \/ CollectDone \/ Ack \/ ReportAck \/ Forward \/ RangeDone

Consumer == RegisterConsumer \/ RangeRecv \/ RangeEnd \/ Publish \/ ReportPublish

Teardown ==
  \/ ConnClose \/ ReportConnClose \/ ChannelClose \/ ReportChannelClose
  \/ CloseErrs \/ CloseSend \/ CloseDone

Worker == Producer \/ Consumer \/ Teardown

Environment == Deliver \/ HostSend \/ HostClose

Next == Factory \/ Worker \/ Environment

Spec == Init /\ [][Next]_vars

\* the scheduler runs a runnable worker, the broker keeps delivering and the
\* host keeps receiving from the channels it handed to the worker
LiveSpec == Spec /\ WF_vars(Worker) /\ WF_vars(Deliver)

\* the steps of a worker that do not wait for the host: everything but the
\* sends on the output and the error channel
WorkerInternal ==
  \/ Consume \/ RegisterProducer \/ LoopHead \/ Receive \/ CollectDone \/ Ack
  \/ RangeDone \/ RegisterConsumer \/ RangeRecv \/ RangeEnd \/ Publish
  \/ ConnClose \/ ChannelClose \/ CloseErrs \/ CloseSend \/ CloseDone

\* the scheduler runs a runnable worker and the broker keeps delivering, but
\* the host is free never to receive from the channels it handed out
FairSpec == Spec /\ WF_vars(WorkerInternal) /\ WF_vars(Deliver)

(* ---- vocabulary of the properties ---- *)
IsProducer == kind = "producer"
IsConsumer == kind = "consumer"
Terminated == pc \in {"done", "crashed"}
TeardownPcs == {"disconnect", "reportConnClose", "channelClose",
                "reportChannelClose", "close(errs)", "close(send)", "close(done)"}
ConsumeFailed == messages = "nil"
AckFailed == \E n \in 1..Len(acks) : ~acks[n].ok
\* deliveries the producer has to take to forward k bodies in chunks of c
Needed(c, k) == c * ((k + c - 1) \div c)
\* the teardown events performed so far, in order
TeardownEvents == {"conn.Close", "channel.Close", "close(errs)", "close(send)", "close(done)"}
TeardownLog == SelectSeq(calls, LAMBDA e : e \in TeardownEvents)
IsPrefix(s, t) == Len(s) <= Len(t) /\ s = SubSeq(t, 1, Len(s))

(* ---- C1 ---- *)
C1Pre ==
  /\ IsProducer /\ messages = "open"
  /\ config.StopAfter > 0 /\ config.ChunkSize >= 1
  /\ Needed(config.ChunkSize, config.StopAfter) <= MaxMsgs

C1Done ==
  /\ pc = "done"
  /\ Len(sent) = config.StopAfter
  /\ Count("close(send)") = 1 /\ Count("close(errs)") = 1

\* C1: with stop-after = k > 0 and chunk size c >= 1, a producer whose consume
\* succeeded, whose broker keeps delivering, whose acknowledgments succeed and
\* whose host keeps receiving never forwards more than k bodies, never closes
\* a channel twice, and eventually is done having forwarded exactly k bodies
\* with the output and the error channel closed exactly once each.
C1_StopAfterEmitsExactlyK ==
  /\ [](C1Pre => /\ Len(sent) <= config.StopAfter
                 /\ Count("close(send)") <= 1 /\ Count("close(errs)") <= 1
                 /\ (Terminated /\ ~AckFailed => C1Done))
  /\ (C1Pre ~> (AckFailed \/ C1Done))

C1_Witness ==
  /\ C1Pre /\ C1Done /\ ~AckFailed
  /\ config.StopAfter = 3 /\ config.ChunkSize = 2 /\ ~config.AutoAck

(* ---- C2 ---- *)
\* the producer is at a receive that cannot proceed: every delivery the broker
\* made available has been taken
ReceiveBlocks ==
  /\ pc = "collect" /\ i < config.ChunkSize
  /\ messages = "open" /\ received = delivered

\* C2: with stop-after = 0 and chunk size c >= 1, when the next receive blocks
\* after the broker made n deliveries available, exactly the first
\* c*floor(n/c) bodies have been forwarded and no acknowledgment covers a
\* delivery beyond them.
C2_WholeChunksOnly ==
  (IsProducer /\ config.StopAfter = 0 /\ config.ChunkSize >= 1 /\ ReceiveBlocks)
    => LET whole == config.ChunkSize * (delivered \div config.ChunkSize) IN
       /\ Len(sent) = whole
       /\ \A n \in 1..Len(acks) : acks[n].tag <= whole

C2_Witness ==
  /\ IsProducer /\ config.StopAfter = 0 /\ config.ChunkSize = 2 /\ ReceiveBlocks
  /\ delivered = 5 /\ Len(sent) = 4 /\ i = 1

(* ---- C3 ---- *)
\* C3: after a consume-setup failure the producer never is at a receive from
\* the delivery stream, and once the error is reported it is tearing down or
\* terminated.
C3_ConsumeFailureTearsDown ==
  (IsProducer /\ ConsumeFailed)
    => /\ ~(pc = "collect" /\ i < config.ChunkSize)
       /\ (pc # "reportConsume" => pc \in TeardownPcs \cup {"done", "register"})

(* ---- C4 ---- *)
\* the chunk of the t-th delivery ends at this delivery tag
ChunkEnd(t) == config.ChunkSize * (((t - 1) \div config.ChunkSize) + 1)

\* C4: with auto-ack = false, every forwarded body is the body of a delivery
\* whose whole chunk has been received and whose chunk's last delivery has
\* been acknowledged cumulatively with success.
C4_ForwardOnlyAfterAck ==
  (IsProducer /\ ~config.AutoAck)
    => \A n \in 1..Len(sent) :
         /\ ChunkEnd(sent[n]) <= received
         /\ \E a \in 1..Len(acks) :
              acks[a].ok /\ acks[a].multiple /\ acks[a].tag = ChunkEnd(sent[n])

C4_Witness ==
  /\ IsProducer /\ ~config.AutoAck /\ config.ChunkSize = 2
  /\ Len(sent) = 3 /\ Len(acks) = 2 /\ pc = "range"

(* ---- C5 ---- *)
\* C5: with auto-ack = false, the n-th acknowledgment is a cumulative one on
\* the last delivery of the n-th chunk (tag n*c), and the deliveries taken
\* are exactly c per acknowledgment issued, plus the chunk being collected or
\* awaiting its acknowledgment.
C5_OneAckPerChunk ==
  (IsProducer /\ ~config.AutoAck)
    => /\ \A n \in 1..Len(acks) :
            acks[n].tag = n * config.ChunkSize /\ acks[n].multiple
       /\ received = config.ChunkSize * Len(acks)
                      + (IF pc = "collect" THEN i
                         ELSE IF pc = "ack" THEN config.ChunkSize ELSE 0)

C5_Witness ==
  /\ IsProducer /\ ~config.AutoAck /\ config.ChunkSize = 2
  /\ Len(acks) = 2 /\ received = 4 /\ Terminated

(* ---- C6 ---- *)
\* C6: once a cumulative acknowledgment has failed, the producer is reporting
\* it, tearing down or terminated; the error is the one the host receives; no
\* body of the failed chunk has been forwarded; from then on nothing is
\* forwarded, received or acknowledged; and the producer eventually is done
\* with the whole teardown performed.
C6_AckFailureIsFatal ==
  /\ [](AckFailed =>
         /\ pc \in {"reportAck", "done"} \cup TeardownPcs
         /\ (pc # "reportAck" => Len(errsOut) >= 1 /\ errsOut[1] = "Ack")
         /\ Len(sent) = acks[Len(acks)].tag - config.ChunkSize
         /\ received = acks[Len(acks)].tag)
  /\ [][AckFailed => sent' = sent /\ received' = received /\ acks' = acks]_vars
  /\ (AckFailed ~> (pc = "done" /\ Len(TeardownLog) = 4))

C6_Witness ==
  /\ AckFailed /\ pc = "done" /\ config.ChunkSize = 2
  /\ Len(acks) = 2 /\ Len(sent) = 2 /\ received = 4 /\ delivered = 5

(* ---- C7 ---- *)
\* C7 as stated: a terminated producer has closed the output channel, then
\* the error channel, then disconnected the broker handle.
C7_CloseThenDisconnect ==
  (IsProducer /\ Terminated)
    => TeardownLog = <<"close(send)", "close(errs)", "conn.Close", "channel.Close">>

ProducerTeardown == <<"conn.Close", "channel.Close", "close(errs)", "close(send)">>

\* C7 amended: the teardown steps of a producer only ever happen in the order
\* disconnect (connection close, channel close), close of the error channel,
\* close of the output channel, none of them twice, and a terminated producer
\* has performed each exactly once.
C7_DisconnectThenClose ==
  IsProducer
    => /\ IsPrefix(TeardownLog, ProducerTeardown)
       /\ (Terminated => TeardownLog = ProducerTeardown)
       /\ (pc \notin TeardownPcs \cup {"done", "crashed"} => TeardownLog = <<>>)

C7_Witness ==
  /\ IsProducer /\ pc = "done" /\ ~AckFailed /\ Len(sent) = 3
  /\ TeardownLog = ProducerTeardown

(* ---- C8 ---- *)
\* C8: the bodies forwarded so far are the bodies of the first deliveries of
\* the stream, in delivery order.
C8_ForwardedIsPrefixOfDelivered ==
  IsProducer
    => /\ Len(sent) <= delivered
       /\ \A n \in 1..Len(sent) : sent[n] = Delivery(n).Body

C8_Witness ==
  /\ IsProducer /\ config.ChunkSize = 2 /\ Len(sent) = 4 /\ delivered = 5

(* ---- C9 ---- *)
PublishedBodies == [n \in 1..Len(pubLog) |-> pubLog[n].body]
PublishFailures == Cardinality({n \in 1..Len(pubLog) : ~pubLog[n].ok})
PublishReports  == Cardinality({n \in 1..Len(errsOut) : errsOut[n] = "Publish"})
\* the items the host has put on the input channel, in order
HostSent == inLog \o recvQ

\* C9: the bodies of the publish calls are the items taken from the input
\* channel, in arrival order (all but the one about to be published); every
\* failed publish is reported once and nothing else happens on its account;
\* a consumer that left its loop has attempted to publish every item the
\* host sent, whichever publishes failed.
C9_PublishInOrderFailuresNonFatal ==
  IsConsumer
    => /\ PublishedBodies = (IF pc = "publish" THEN SubSeq(inLog, 1, Len(inLog) - 1)
                                               ELSE inLog)
       /\ IsPrefix(inLog, HostSent)
       /\ PublishReports = PublishFailures - (IF pc = "reportPublish" THEN 1 ELSE 0)
       /\ (pc \in TeardownPcs \cup {"done"} => PublishedBodies = HostSent)

C9_Witness ==
  /\ IsConsumer /\ pc = "done" /\ Len(pubLog) = 2
  /\ ~pubLog[1].ok /\ pubLog[1].body = "b" /\ pubLog[2].body = "a"

(* ---- C10 ---- *)
\* C10: a consumer closes done at most once and disconnects at most once,
\* does neither before the host has closed the input channel, has done each
\* exactly once when it is done, and once the input channel is closed it
\* eventually is done.
C10_DoneAndDisconnectOnce ==
  /\ [](IsConsumer =>
         /\ Count("close(done)") <= 1
         /\ Count("conn.Close") <= 1 /\ Count("channel.Close") <= 1
         /\ (~recvClosed => TeardownLog = <<>> /\ pc \notin TeardownPcs \cup {"done"})
         /\ (pc = "done" => /\ Count("close(done)") = 1
                            /\ Count("conn.Close") = 1 /\ Count("channel.Close") = 1))
  /\ ((IsConsumer /\ recvClosed /\ pc # "factoryError") ~> (pc = "done"))

C10_Witness ==
  /\ IsConsumer /\ pc = "done" /\ inLog = <<>> /\ recvClosed
  /\ Count("close(done)") = 1 /\ Count("conn.Close") = 1

(* ---- C11 ---- *)
\* C11 as stated: a consumer that is done has closed done, then the error
\* channel, then disconnected the broker handle.
C11_DoneThenDisconnect ==
  (IsConsumer /\ Terminated)
    => TeardownLog = <<"close(done)", "close(errs)", "conn.Close", "channel.Close">>

ConsumerTeardown == <<"conn.Close", "channel.Close", "close(errs)", "close(done)">>

\* C11 amended: the teardown steps of a consumer only ever happen after the
\* input channel is closed and in the order disconnect (connection close,
\* channel close), close of the error channel, close of done, none of them
\* twice, and a terminated consumer has performed each exactly once.
C11_DisconnectThenDone ==
  IsConsumer
    => /\ IsPrefix(TeardownLog, ConsumerTeardown)
       /\ (Terminated => TeardownLog = ConsumerTeardown)
       /\ (TeardownLog # <<>> => recvClosed)

C11_Witness ==
  /\ IsConsumer /\ pc = "done" /\ Len(pubLog) = 2
  /\ TeardownLog = ConsumerTeardown /\ Len(errsOut) >= 2

(* ---- C12 ---- *)
\* C12: whatever the host does, a worker that has started its teardown
\* eventually terminates with the error channel closed.
C12_TeardownAlwaysCompletes ==
  (pc \in TeardownPcs) ~> (Terminated /\ IsClosed("close(errs)"))

(* ---- C13 ---- *)
\* C13: a disconnect that has returned has attempted the connection close and
\* the channel close exactly once each, whichever of them failed; and with a
\* host that receives the reported errors, a disconnect that has attempted
\* its first close eventually attempts the second.
C13_BothClosesAttempted ==
  /\ [](/\ Count("channel.Close") <= Count("conn.Close")
        /\ Count("conn.Close") <= 1
        /\ (pc \in {"close(errs)", "close(send)", "close(done)", "done", "crashed"}
             => Count("conn.Close") = 1 /\ Count("channel.Close") = 1))
  /\ ((Count("conn.Close") = 1) ~> (Count("channel.Close") = 1))

C13_Witness ==
  /\ pc = "done" /\ conn = "open" /\ channel = "open"
  /\ Count("conn.Close") = 1 /\ Count("channel.Close") = 1
  /\ Len(errsOut) = 2 /\ errsOut[1] = "conn.Close" /\ errsOut[2] = "channel.Close"

(* ---- C14 ---- *)
AckTags == [n \in 1..Len(acks) |-> acks[n].tag]

\* chunk-size = 2, auto-ack = false, stop-after = 3, delivery started and no
\* acknowledgment failed
C14Scenario ==
  /\ IsProducer /\ messages = "open" /\ ~AckFailed
  /\ config.ChunkSize = 2 /\ ~config.AutoAck /\ config.StopAfter = 3

\* what the scenario's steps agree on: at most 1, 2, 3 are forwarded,
\* acknowledgments are issued on deliveries 2 and 4 only and only once they
\* are received, and a terminated producer forwarded exactly 1, 2, 3
C14Common ==
  /\ IsPrefix(sent, <<1, 2, 3>>)
  /\ IsPrefix(AckTags, <<2, 4>>)
  /\ \A n \in 1..Len(acks) : acks[n].tag <= received
  /\ (Terminated => sent = <<1, 2, 3>> /\ AckTags = <<2, 4>> /\ pc = "done")

\* C14 as stated: in the scenario message 3 has been forwarded by the time
\* message 4 is received.
C14_ThreeForwardedBeforeFourReceived ==
  C14Scenario => (C14Common /\ (received >= 4 => Len(sent) >= 3))

\* C14 amended: in the scenario the producer forwards exactly 1, 2, 3 and then
\* terminates, acknowledging on delivery 2 and on delivery 4 after each is
\* received; message 3 is forwarded only after message 4 has been received
\* and acknowledged; with 5 deliveries available it eventually is done.
C14_ThreeForwardedAfterFourAcked ==
  /\ [](C14Scenario =>
         (C14Common /\ (Len(sent) >= 3 => received = 4 /\ AckTags = <<2, 4>>)))
  /\ (C14Scenario ~> (AckFailed \/ (pc = "done" /\ sent = <<1, 2, 3>>)))

C14_Witness ==
  /\ C14Scenario /\ pc = "done" /\ delivered = 5
  /\ sent = <<1, 2, 3>> /\ AckTags = <<2, 4>> /\ received = 4

(* ---- C15 ---- *)
\* C15: the connect steps attempted are Dial, Channel, QueueDeclare in that
\* order up to the first one that fails (the last one attempted is the one
\* after the handles that were opened); a factory that returned an error
\* left no worker behind: nothing was consumed, published, sent or closed,
\* and nothing changes afterwards; a worker only exists after all three
\* steps succeeded.
C15_ConnectStopsAtFirstFailure ==
  /\ [](/\ IsPrefix(SubSeq(calls, 1, IF Len(calls) < 3 THEN Len(calls) ELSE 3),
                     ConnectSteps)
        /\ (pc = "factoryError" =>
              /\ Len(calls) <= 3
              /\ (conn = "none" => Len(calls) <= 1 /\ channel = "none")
              /\ (conn # "none" /\ channel = "none" => Len(calls) = 2)
              /\ (channel # "none" => Len(calls) = 3)
              /\ ~queue
              /\ messages = "unset" /\ defers = <<>>
              /\ sent = <<>> /\ errsOut = <<>> /\ pubLog = <<>> /\ inLog = <<>>)
        /\ (pc \notin {"idle", "factoryError"} =>
              SubSeq(calls, 1, 3) = ConnectSteps /\ queue))
  /\ [][pc = "factoryError" => vars' = vars]_vars

C15_Witness ==
  /\ pc = "factoryError" /\ calls = <<"Dial", "Channel">>
  /\ conn = "open" /\ channel = "none"

(* ---- C16 ---- *)
\* C16: a producer with stop-after = 0 that is tearing down or terminated has
\* seen an acknowledgment fail or a runtime panic, however many bodies it
\* has forwarded.
C16_UnlimitedNeverStopsOnCount ==
  (IsProducer /\ config.StopAfter = 0 /\ pc \in TeardownPcs \cup {"done", "crashed"})
    => (AckFailed \/ panics # <<>>)

\* the producer went on past MaxMsgs - 1 forwards and only ended on a failed
\* acknowledgment
C16_Witness ==
  /\ IsProducer /\ config.StopAfter = 0 /\ config.ChunkSize = 1
  /\ Len(sent) = MaxMsgs - 1 /\ pc = "done" /\ AckFailed

(* ---- C17 ---- *)
\* C17: where a running producer issues the acknowledgment on the last
\* delivery of its chunk buffer, the chunk size is at least 1 and the buffer
\* is not empty.
C17_ChunkSizeAtLeastOne ==
  (IsProducer /\ pc = "ack") => (config.ChunkSize >= 1 /\ Len(msgBuf) >= 1)

(* ---- C18 ---- *)
SendPcs == {"reportConsume", "reportAck", "reportConnClose",
            "reportChannelClose", "reportPublish"}

\* C18: no worker ever panics on a send on a closed channel or on a second
\* close; no channel is closed twice; the worker is never at a send on the
\* error channel or on the output channel once that channel is closed; and
\* the host receives nothing on a channel that is closed.
C18_NoSendAfterClose ==
  /\ [](/\ \A n \in 1..Len(panics) : panics[n] = "index out of range"
        /\ Count("close(errs)") <= 1 /\ Count("close(send)") <= 1
        /\ Count("close(done)") <= 1
        /\ (IsClosed("close(errs)") => pc \notin SendPcs)
        /\ (IsClosed("close(send)") => pc # "range"))
  /\ [][/\ (errsOut' # errsOut => ~IsClosed("close(errs)"))
        /\ (sent' # sent => ~IsClosed("close(send)"))]_vars

C18_Witness ==
  /\ pc = "done" /\ IsClosed("close(errs)")
  /\ Len(errsOut) = 3 /\ errsOut[2] = "conn.Close" /\ errsOut[3] = "channel.Close"

(* ---- C19 ---- *)
\* C19: with auto-ack = false, stop-after = k > 0 and chunk size c >= 1, a
\* producer that ended on its iteration counter has taken c*ceil(k/c)
\* deliveries, its last acknowledgment is a successful cumulative one on
\* delivery c*ceil(k/c), and it has forwarded exactly the first k bodies.
C19_TrailingAckedNotForwarded ==
  (/\ IsProducer /\ ~config.AutoAck /\ config.StopAfter > 0 /\ config.ChunkSize >= 1
   /\ pc \in TeardownPcs \cup {"done"} /\ ~AckFailed /\ panics = <<>>)
    => LET need == Needed(config.ChunkSize, config.StopAfter) IN
       /\ received = need
       /\ Len(acks) * config.ChunkSize = need
       /\ acks[Len(acks)].tag = need /\ acks[Len(acks)].multiple
       /\ Len(sent) = config.StopAfter

C19_Witness ==
  /\ IsProducer /\ ~config.AutoAck /\ config.StopAfter = 1 /\ config.ChunkSize = 2
  /\ pc = "done" /\ ~AckFailed /\ received = 2 /\ sent = <<1>>
  /\ acks[1].tag = 2

(* ---- C20 ---- *)
\* C20: after connect failed at the Channel or the QueueDeclare step the
\* connection is open (and after a QueueDeclare failure the channel too), no
\* close has been attempted on them, and this never changes.
C20_FailedConnectLeavesHandleOpen ==
  /\ []((pc = "factoryError" /\ Len(calls) >= 2) =>
         /\ conn = "open"
         /\ (Len(calls) = 3 => channel = "open")
         /\ TeardownLog = <<>>)
  /\ [][(pc = "factoryError") =>
          (conn' = conn /\ channel' = channel /\ calls' = calls /\ pc' = pc)]_vars

C20_Witness ==
  /\ pc = "factoryError" /\ calls = ConnectSteps
  /\ conn = "open" /\ channel = "open" /\ ~queue

====
